---------------------------- MODULE Spec2Model ----------------------------
(***************************************************************************)
(* Model of the Shrine caching proxy (dbd-shrine-api/index.js): the        *)
(* source-fallback fetch, the catalog enrichment, the in-memory cache with *)
(* its TTL, and the handlers, timer and start-up call that drive it.       *)
(*                                                                         *)
(* JavaScript values: a string is a tuple of one-character strings; null   *)
(* and undefined are the tuples Null and Undefined (no string equals them, *)
(* their single element has more than one character); an object is a       *)
(* record whose DOMAIN is the set of the keys it has; an array is a tuple. *)
(***************************************************************************)
EXTENDS Integers, Sequences, FiniteSets, TLC

Null == <<"null">>
Undefined == <<"undefined">>

\* Boolean(v) for strings, null and undefined.
Truthy(v) == v # Null /\ v # Undefined /\ v # <<>>

\* a || b
Or(a, b) == IF Truthy(a) THEN a ELSE b

\* o.f, undefined when the key is absent
Get(o, f) == IF f \in DOMAIN o THEN o[f] ELSE Undefined

\* { ...o, f: v }
Put(o, f, v) == [k \in DOMAIN o \cup {f} |-> IF k = f THEN v ELSE o[k]]

\* s.startsWith(prefix)
StartsWith(s, prefix) ==
    /\ Len(s) >= Len(prefix)
    /\ SubSeq(s, 1, Len(prefix)) = prefix

LowerChar(c) ==
    CASE c = "K" -> "k"
      [] c = "P" -> "p"
      [] c = "X" -> "x"
      [] OTHER -> c

\* s.toString().toLowerCase()
ToLowerCase(s) == [i \in 1..Len(s) |-> LowerChar(s[i])]

MinOf(S) == CHOOSE m \in S : \A n \in S : m <= n
MaxOf(S) == CHOOSE m \in S : \A n \in S : m >= n

-----------------------------------------------------------------------------
(* Configuration *)

\* index.js 18-21
DEFAULT_SOURCES ==
    << "https://dbd.tricky.lol/api/shrine",
       "https://dbd-api.herokuapp.com/shrineofsecrets?pretty=false&branch=live" >>

\* index.js 23-25
PERK_CATALOG_SOURCES == << "https://dbd.tricky.lol/api/perks" >>

\* index.js 43: one week in milliseconds
CACHE_TIME == 1000 * 60 * 60 * 24 * 7

\* index.js 45-49
FALLBACK == [source |-> <<"f","a","l","l","b","a","c","k">>,
             lastUpdated |-> Null,
             perks |-> <<>>]

BASE_HOST == <<"h","t","t","p","s",":","/","/","d","b","d",".","t","r","i","c","k","y",".","l","o","l">>
HttpPrefix == <<"h","t","t","p">>

k28p02 == <<"k","2","8","p","0","2">>
k32p02 == <<"k","3","2","p","0","2">>
DarknessRevealed == <<"D","a","r","k","n","e","s","s"," ","R","e","v","e","a","l","e","d">>
ForcedHesitation == <<"F","o","r","c","e","d"," ","H","e","s","i","t","a","t","i","o","n">>

Constructor == <<"c","o","n","s","t","r","u","c","t","o","r">>
ObjectName == <<"O","b","j","e","c","t">>

\* index.js 27-30, 122: PERK_OVERRIDES[key] || {}. The table is an object
\* literal, so the lookup also finds what Object.prototype gives it: under the
\* key "constructor" the function Object, whose name is "Object" (no other
\* inherited key is all lower case and has a name).
PERK_OVERRIDES(key) ==
    IF key = k28p02 THEN [name |-> DarknessRevealed]
    ELSE IF key = k32p02 THEN [name |-> ForcedHesitation]
    ELSE IF key = Constructor THEN [name |-> ObjectName]
    ELSE [none |-> TRUE]

-----------------------------------------------------------------------------
(* Pure functions of the pipeline *)

\* a normalizer that joins every reference to the base host
normalizeAlwaysJoin(image) ==
    IF ~Truthy(image) THEN Null
    ELSE BASE_HOST \o (IF StartsWith(image, <<"/">>) THEN <<>> ELSE <<"/">>) \o image

\* index.js 32-36
normalizeImageUrl(image) ==
    IF ~Truthy(image) THEN Null
    ELSE IF StartsWith(image, HttpPrefix) THEN image
    ELSE BASE_HOST \o (IF StartsWith(image, <<"/">>) THEN <<>> ELSE <<"/">>) \o image

ImageFields == <<"icon", "iconUrl", "iconPath", "image", "perkImage", "perkIcon">>

\* index.js 51-62 (perk is an object)
extractImage(perk) ==
    LET hits == {i \in 1..Len(ImageFields) : Truthy(Get(perk, ImageFields[i]))}
    IN  IF hits = {} THEN Null ELSE perk[ImageFields[MinOf(hits)]]

\* index.js 66-69
WithImage(perk) ==
    LET image == extractImage(perk)
    IN  IF Truthy(image) THEN Put(perk, "image", image) ELSE perk

\* index.js 72-75
ImageRecord(p) ==
    [name  |-> Or(Or(Or(Or(Get(p, "name"), Get(p, "perkName")), Get(p, "displayName")),
                     Get(p, "id")), Null),
     image |-> Or(Or(Get(p, "image"), extractImage(p)), Null)]

\* index.js 71-76
ImagesOf(perksWithImages) ==
    SelectSeq([i \in 1..Len(perksWithImages) |-> ImageRecord(perksWithImages[i])],
              LAMBDA r : Truthy(r.image))

\* index.js 64-79
enrichPayload(payload) ==
    LET perks == IF "perks" \in DOMAIN payload THEN payload.perks ELSE <<>>
        perksWithImages == [i \in 1..Len(perks) |-> WithImage(perks[i])]
    IN  [perksWithImages |-> perksWithImages, images |-> ImagesOf(perksWithImages)]

\* index.js 115
CatalogKey(perk) ==
    ToLowerCase(Or(Or(Or(Get(perk, "id"), Get(perk, "perkId")), Get(perk, "name")), <<>>))

\* index.js 120
PerkKey(perk) == ToLowerCase(Or(Get(perk, "id"), <<>>))

\* index.js 121-133, for a perk whose key has a catalog entry (found) or not
MergePerk(perk, hasFound, found) ==
    LET key == PerkKey(perk)
        override == PERK_OVERRIDES(key)
        f(name) == IF hasFound THEN Get(found, name) ELSE Undefined
        image == normalizeImageUrl(IF hasFound THEN extractImage(found) ELSE Null)
        name == Or(Or(Or(Get(override, "name"), f("name")), f("displayName")),
                   Or(Get(perk, "name"), key))
        description == Or(f("description"), Get(perk, "description"))
        role == Or(f("role"), f("roleCategory"))
        character == Or(Or(Or(f("character"), f("owner")), f("survivor")), f("killer"))
    IN  IF ~hasFound /\ ~Truthy(Get(override, "name")) THEN perk
        ELSE Put(Put(Put(Put(Put(perk, "name", name), "description", description),
                         "role", role), "character", character),
                 "image", Or(image, Get(perk, "image")))

\* a merge that keeps only the perks it has something to say about
mapPerksMatchedOnly(shrinePerks, catalog) ==
    LET at(key) == {i \in 1..Len(catalog) : key # <<>> /\ CatalogKey(catalog[i]) = key}
        merged(perk) ==
            LET hits == at(PerkKey(perk))
            IN  IF hits = {} THEN MergePerk(perk, FALSE, perk)
                ELSE MergePerk(perk, TRUE, catalog[MaxOf(hits)])
        all == [i \in 1..Len(shrinePerks) |-> merged(shrinePerks[i])]
    IN  SelectSeq(all, LAMBDA q : "role" \in DOMAIN q)

\* index.js 111-134
mapPerksWithCatalog(shrinePerks, catalog) ==
    LET at(key) == {i \in 1..Len(catalog) : key # <<>> /\ CatalogKey(catalog[i]) = key}
        merged(perk) ==
            LET hits == at(PerkKey(perk))
            IN  IF hits = {} THEN MergePerk(perk, FALSE, perk)
                ELSE MergePerk(perk, TRUE, catalog[MaxOf(hits)])
    IN  [i \in 1..Len(shrinePerks) |-> merged(shrinePerks[i])]

\* index.js 92-103: the catalog response body, normalised to a list of entries
CatalogList(payload) ==
    IF payload.shape = "array" THEN payload.items
    ELSE IF payload.shape = "wrapped" THEN payload.data
    ELSE [i \in 1..Len(payload.entries) |->
            LET e == payload.entries[i]
            IN  [k \in DOMAIN e.value \cup {"id"} |->
                    IF k \in DOMAIN e.value THEN e.value[k] ELSE e.key]]

-----------------------------------------------------------------------------
(* Bounds of the model *)

\* concurrent GET /shrine requests
MaxRequests == 1
\* Date.now() when the process starts
StartClock == 1
\* how far past StartClock + CACHE_TIME the clock runs
MaxExtra == 1
\* length of the operator-configured source list (SHRINE_SOURCE) while several
\* callers interleave, and while the start-up call runs alone
MaxSources == 1
MaxSoloSources == 3

\* length of a shrine perks list and of a catalog, where enrichment is examined
MaxPerks == 2
MaxCatalog == 2
\* length of an image reference after its prefix
MaxRefLen == 3

MaxClock == StartClock + CACHE_TIME + MaxExtra

-----------------------------------------------------------------------------
(* The environment: what the upstream hosts may answer *)

AbsImg == <<"h","t","t","p",":","/","/","f","u","l","l","/","u","r","l",".","p","n","g">>
RelImg == <<"/","i","c","o","n","s","/","a",".","p","n","g">>
CatImg == <<"c",".","p","n","g">>

\* shrine response bodies: a perk with an absolute image and a perk with an
\* override and a relative icon; a body without a perks list
Payloads ==
    { [perks |-> << [id |-> <<"x">>, image |-> AbsImg],
                    [id |-> k28p02, icon |-> RelImg] >>],
      [week |-> <<"1">>] }

\* catalog response bodies
CatalogPayloads ==
    { [shape |-> "array",
       items |-> << [id |-> <<"X">>, name |-> <<"N">>, icon |-> CatImg] >>] }

\* how one upstream request can fail: a non-2xx status (index.js 144-147), an
\* exception of fetch, an exception of response.json() (index.js 150-152)
Failures ==
    { [kind |-> "status", reason |-> "503"],
      [kind |-> "exception", reason |-> "socket hang up"],
      [kind |-> "badjson", reason |-> "invalid json response body"] }

\* "hang": the host accepts the request and never answers
Hang == [kind |-> "hang"]

\* what a request to a shrine source, and to the catalog, ends in
ShrineOutcomes == [kind : {"ok"}, payload : Payloads] \cup Failures \cup {Hang}
CatalogOutcomes == [kind : {"ok"}, payload : CatalogPayloads] \cup Failures \cup {Hang}

\* the same with one kind of failure, for the interleavings of several callers
ServerShrineOutcomes ==
    [kind : {"ok"}, payload : Payloads]
        \cup {f \in Failures : f.kind = "status"} \cup {Hang}
ServerCatalogOutcomes ==
    [kind : {"ok"}, payload : CatalogPayloads]
        \cup {f \in Failures : f.kind = "status"} \cup {Hang}

SeqsUpTo(S, n) == UNION {[1..k -> S] : k \in 0..n}

NameO == <<"O">>
NameN == <<"N">>
NameD == <<"D">>

\* shrine perks: with and without id, name and image-like fields; ids in upper
\* case, with an override, with a catalog entry, with neither
PerkPool ==
    { [id |-> <<"x">>, image |-> AbsImg],
      [id |-> k28p02, icon |-> RelImg],
      [id |-> <<"X">>, name |-> NameO],
      [id |-> <<"x">>],
      [name |-> NameO],
      [id |-> Constructor],
      [id |-> k32p02, name |-> NameO, image |-> RelImg],
      [id |-> <<"y">>, iconUrl |-> RelImg] }

\* catalog entries: keyed by id, perkId or name; with name, displayName or
\* neither; with and without an image-like field
CatalogPool ==
    { [id |-> <<"X">>, name |-> NameN, icon |-> CatImg],
      [id |-> <<"x">>, displayName |-> NameD],
      [perkId |-> k28p02, name |-> NameN, image |-> AbsImg],
      [name |-> <<"x">>, description |-> NameD],
      [id |-> Constructor, name |-> NameN],
      [id |-> <<"x">>] }

EnrichPayloads ==
    {[perks |-> l] : l \in SeqsUpTo(PerkPool, MaxPerks)} \cup {[week |-> <<"1">>]}

\* catalogs as an array, and one as a wrapped array and one as a keyed object
EnrichCatalogs ==
    {[shape |-> "array", items |-> l] : l \in SeqsUpTo(CatalogPool, MaxCatalog)}
        \cup { [shape |-> "wrapped",
                data |-> << [id |-> <<"x">>, name |-> NameN] >>],
               [shape |-> "keyed",
                entries |-> << [key |-> <<"x">>, value |-> [name |-> NameN]] >>] }

EnrichShrineOutcomes == [kind : {"ok"}, payload : EnrichPayloads]
EnrichCatalogOutcomes ==
    [kind : {"ok"}, payload : EnrichCatalogs] \cup {f \in Failures : f.kind = "status"}

\* image references: absolute, nearly absolute and relative, with and without
\* leading slashes
RefPrefixes ==
    { <<>>, HttpPrefix, <<"h","t","t">>, <<"h","t","t","p","s",":","/","/">> }
RefChars == {"/", "a", "."}
ImageRefs ==
    {pre \o body : pre \in RefPrefixes, body \in SeqsUpTo(RefChars, MaxRefLen)} \ {<<>>}

\* a shrine body with one perk without image, and the catalog that files the
\* image reference ref under that perk's id
ImagePayload == [perks |-> << [id |-> <<"x">>] >>]
ImageCatalogOutcome(ref) ==
    [kind |-> "ok",
     payload |-> [shape |-> "array", items |-> << [id |-> <<"x">>, icon |-> ref] >>]]

CustomSource(i) ==
    CASE i = 1 -> "https://mirror-a.example/shrine"
      [] i = 2 -> "https://mirror-b.example/shrine"
      [] i = 3 -> "https://mirror-c.example/shrine"
      [] i = 4 -> "https://mirror-d.example/shrine"
      [] OTHER -> "https://mirror-e.example/shrine"

\* values of SHRINE_SOURCE after split/trim/filter (index.js 14-17): empty, or a
\* list of n URLs
SourceConfigs == { <<>>, [i \in 1..MaxSources |-> CustomSource(i)] }
SoloSourceConfigs == { [i \in 1..n |-> CustomSource(i)] : n \in 0..MaxSoloSources }

-----------------------------------------------------------------------------
(* State *)

VARIABLES
    sources,       \* SOURCES (index.js 14-17), fixed at start
    clock,         \* Date.now()
    timerDue,      \* when the setInterval callback is next due
    cache,         \* index.js 40
    lastFetch,     \* index.js 41
    run,           \* per caller of loadShrine: the locals of its call
    response,      \* the HTTP response the step just taken sent, if any
    settled,       \* the loadShrine call the step just taken settled, if any
    shrineOk,      \* history: some shrine source has answered successfully
    bgFailedWarm   \* history: a timer refresh has failed while the cache was warm

vars == <<sources, clock, timerDue, cache, lastFetch, run, response, settled,
          shrineOk, bgFailedWarm>>

Startup == <<"startup", 0>>
Timer == <<"timer", 0>>
Requests == {<<"req", i>> : i \in 1..MaxRequests}
Procs == {Startup, Timer} \cup Requests

NoCache == [null |-> TRUE]
NoPayload == [none |-> TRUE]
NoResponse == [route |-> "none"]
NoSettle == [kind |-> "none"]
NoAnswer == [kind |-> "none"]
NullNumber == [null |-> TRUE]

\* index.js 137, 180
Candidates == IF Len(sources) > 0 THEN sources ELSE DEFAULT_SOURCES

IdleRun ==
    [pc |-> "idle", force |-> FALSE, now |-> 0, idx |-> 0, errors |-> <<>>,
     url |-> "", payload |-> NoPayload, startWarm |-> FALSE, afterBgFail |-> FALSE,
     answer |-> NoAnswer]

\* index.js 159, 164-165, 137-143: the call up to its first await; startWarm and
\* afterBgFail record what a request found when it arrived, answer the request
\* that succeeded and the body it delivered
StartedRun(force) ==
    [pc |-> "shrine", force |-> force, now |-> clock, idx |-> 1, errors |-> <<>>,
     url |-> "", payload |-> NoPayload,
     startWarm |-> ~force /\ cache # NoCache,
     afterBgFail |-> ~force /\ bgFailedWarm,
     answer |-> NoAnswer]

\* a call whose awaited request is never answered: its locals are never read again
HungRun ==
    [pc |-> "hung", force |-> FALSE, now |-> 0, idx |-> 0, errors |-> <<>>,
     url |-> "", payload |-> NoPayload, startWarm |-> FALSE, afterBgFail |-> FALSE,
     answer |-> NoAnswer]

InFlight(p) == run[p].pc # "idle"

-----------------------------------------------------------------------------
(* loadShrine and its callers *)

\* an enrichment that gives up the perks when the catalog failed
EnrichedNoFallback(payload, catalogOk, catalog) ==
    IF catalogOk
    THEN enrichPayload([perks |-> mapPerksWithCatalog(
                            IF "perks" \in DOMAIN payload THEN payload.perks ELSE <<>>,
                            catalog)])
    ELSE [perksWithImages |-> <<>>, images |-> <<>>]

\* index.js 166-176: enrichment with the catalog, or without it when it failed
Enriched(payload, catalogOk, catalog) ==
    IF catalogOk
    THEN enrichPayload([perks |-> mapPerksWithCatalog(
                            IF "perks" \in DOMAIN payload THEN payload.perks ELSE <<>>,
                            catalog)])
    ELSE enrichPayload(payload)

\* a snapshot that keeps the enriched perks of the snapshot it replaces
MakeSnapshotMerged(url, payload, enriched, at) ==
    [fetchedAt |-> at,
     sourceUsed |-> url,
     sourceTried |-> Candidates,
     data |-> payload,
     perksWithImages |-> IF cache # NoCache THEN cache.perksWithImages
                         ELSE enriched.perksWithImages,
     images |-> enriched.images]

\* a snapshot that always reports the built-in list as tried
MakeSnapshotDefaultsTried(url, payload, enriched, at) ==
    [fetchedAt |-> at,
     sourceUsed |-> url,
     sourceTried |-> DEFAULT_SOURCES,
     data |-> payload,
     perksWithImages |-> enriched.perksWithImages,
     images |-> enriched.images]

\* index.js 177-184
MakeSnapshot(url, payload, enriched, at) ==
    [fetchedAt |-> at,
     sourceUsed |-> url,
     sourceTried |-> Candidates,
     data |-> payload,
     perksWithImages |-> enriched.perksWithImages,
     images |-> enriched.images]

\* index.js 160
CacheHit(force) == ~force /\ cache # NoCache /\ clock - lastFetch < CACHE_TIME

\* index.js 145, 151: the entry pushed for a failed candidate
ErrorEntry(url, outcome) == <<url, outcome.reason>>

\* a return of the first candidate's URL instead of the loop's
FetchResultFirstUrl(url, payload) == [url |-> Candidates[1], payload |-> payload]

\* index.js 149
FetchResult(url, payload) == [url |-> url, payload |-> payload]

\* index.js 145, 151: `${url} -> ${reason}`
ErrorText(entry) == entry[1] \o " -> " \o entry[2]

\* index.js 155: errors.join(" | ")
RECURSIVE JoinErrors(_)
JoinErrors(errors) ==
    IF errors = <<>> THEN ""
    ELSE IF Len(errors) = 1 THEN ErrorText(errors[1])
    ELSE ErrorText(errors[1]) \o " | " \o JoinErrors(Tail(errors))

\* a message that reports the last failure only
ErrorMessageLastOnly(errors) ==
    "All shrine sources failed: " \o ErrorText(errors[Len(errors)])

\* index.js 155: the message of the aggregate error
ErrorMessage(errors) == "All shrine sources failed: " \o JoinErrors(errors)

\* index.js 155: the rejection of loadShrine by fetchFromSources' error
AllSourcesFailed(p, errors) ==
    [kind |-> "rejected", proc |-> p, message |-> ErrorMessage(errors)]

\* index.js 161, 186: loadShrine resolves, on a hit or after a pipeline run
Resolved(p, via) == [kind |-> "resolved", proc |-> p, via |-> via]

\* index.js 192; startWarm and afterBgFail are the request's, not the body's
OkResponse(r, data, startWarm, afterBgFail) ==
    [route |-> "/shrine", proc |-> r, status |-> 200, body |-> data,
     startWarm |-> startWarm, afterBgFail |-> afterBgFail]

\* a catch block without the fallback branch
ErrorResponseAlways500(r, startWarm, afterBgFail) ==
    [route |-> "/shrine", proc |-> r, status |-> 500,
     body |-> [error |-> "Could not fetch shrine data"],
     startWarm |-> startWarm, afterBgFail |-> afterBgFail]

\* index.js 195-200
ErrorResponse(r, startWarm, afterBgFail) ==
    IF cache = NoCache
    THEN [route |-> "/shrine", proc |-> r, status |-> 200,
          body |-> [source |-> FALLBACK.source, lastUpdated |-> FALLBACK.lastUpdated,
                    perks |-> FALLBACK.perks, error |-> "Upstream fetch failed"],
          startWarm |-> startWarm, afterBgFail |-> afterBgFail]
    ELSE [route |-> "/shrine", proc |-> r, status |-> 500,
          body |-> [error |-> "Could not fetch shrine data"],
          startWarm |-> startWarm, afterBgFail |-> afterBgFail]

\* index.js 189-192, 158-165: GET /shrine arrives
GetShrine(r) ==
    /\ run[r].pc = "idle"
    /\ IF CacheHit(FALSE)
       THEN /\ response' = OkResponse(r, cache, TRUE, bgFailedWarm)
            /\ settled' = Resolved(r, "hit")
            /\ run' = run
       ELSE /\ run' = [run EXCEPT ![r] = StartedRun(FALSE)]
            /\ response' = NoResponse
            /\ settled' = NoSettle
    /\ UNCHANGED <<sources, clock, timerDue, cache, lastFetch, shrineOk, bgFailedWarm>>

\* index.js 228-230: the interval callback
TimerFire ==
    /\ clock >= timerDue
    /\ run[Timer].pc = "idle"
    /\ timerDue' = clock + CACHE_TIME
    /\ run' = [run EXCEPT ![Timer] = StartedRun(TRUE)]
    /\ response' = NoResponse
    /\ settled' = NoSettle
    /\ UNCHANGED <<sources, clock, cache, lastFetch, shrineOk, bgFailedWarm>>

\* a failure that also drops the snapshot
RejectAndClear(p, errors) ==
    /\ run' = [run EXCEPT ![p] = IdleRun]
    /\ settled' = AllSourcesFailed(p, errors)
    /\ response' = IF p \in Requests
                   THEN ErrorResponse(p, run[p].startWarm, run[p].afterBgFail)
                   ELSE NoResponse
    /\ bgFailedWarm' = (bgFailedWarm \/ (p = Timer /\ cache # NoCache))
    /\ cache' = NoCache
    /\ lastFetch' = 0
    /\ UNCHANGED shrineOk

\* index.js 155, then the caller's catch: 193-200 for a request, 229 and 233 for
\* the timer and the start-up call
Reject(p, errors) ==
    /\ run' = [run EXCEPT ![p] = IdleRun]
    /\ settled' = AllSourcesFailed(p, errors)
    /\ response' = IF p \in Requests
                   THEN ErrorResponse(p, run[p].startWarm, run[p].afterBgFail)
                   ELSE NoResponse
    /\ bgFailedWarm' = (bgFailedWarm \/ (p = Timer /\ cache # NoCache))
    /\ UNCHANGED <<cache, lastFetch, shrineOk>>

\* a loop that asks the candidate that failed once more
SameCandidate(idx) == idx

\* index.js 140: the for loop moves on to the next candidate
NextCandidate(idx) == idx + 1

\* index.js 140-153: the answer of candidate run[p].idx arrives
ShrineResponse(p, outcome) ==
    /\ run[p].pc = "shrine"
    /\ LET url == Candidates[run[p].idx]
       IN  CASE outcome.kind = "hang" ->
                    /\ run' = [run EXCEPT ![p] = HungRun]
                    /\ response' = NoResponse
                    /\ settled' = NoSettle
                    /\ UNCHANGED <<cache, lastFetch, shrineOk, bgFailedWarm>>
             [] outcome.kind = "ok" ->
                    /\ LET got == FetchResult(url, outcome.payload)
                       IN  run' = [run EXCEPT ![p].pc = "catalog", ![p].url = got.url,
                                              ![p].payload = got.payload,
                                              ![p].answer = [url |-> url,
                                                             body |-> outcome.payload]]
                    /\ shrineOk' = TRUE
                    /\ response' = NoResponse
                    /\ settled' = NoSettle
                    /\ UNCHANGED <<cache, lastFetch, bgFailedWarm>>
             [] OTHER ->
                    LET errors == Append(run[p].errors, ErrorEntry(url, outcome))
                    IN  IF run[p].idx < Len(Candidates)
                        THEN /\ run' = [run EXCEPT ![p].idx = NextCandidate(@),
                                                   ![p].errors = errors]
                             /\ response' = NoResponse
                             /\ settled' = NoSettle
                             /\ UNCHANGED <<cache, lastFetch, shrineOk, bgFailedWarm>>
                        ELSE Reject(p, errors)
    /\ UNCHANGED <<sources, clock, timerDue>>

\* an installation that forgets the timestamp
InstallSnapshotOnly(p, catalogOk, catalog) ==
    LET snapshot == MakeSnapshot(run[p].url, run[p].payload,
                                 Enriched(run[p].payload, catalogOk, catalog), clock)
    IN  /\ cache' = snapshot
        /\ lastFetch' = lastFetch
        /\ run' = [run EXCEPT ![p] = IdleRun]
        /\ settled' = Resolved(p, IF catalogOk THEN "catalog" ELSE "nocatalog")
        /\ response' = IF p \in Requests
                       THEN OkResponse(p, snapshot, run[p].startWarm, run[p].afterBgFail)
                       ELSE NoResponse

\* index.js 177-186, then the caller: 192 for a request
Install(p, catalogOk, catalog) ==
    LET snapshot == MakeSnapshot(run[p].url, run[p].payload,
                                 Enriched(run[p].payload, catalogOk, catalog), clock)
    IN  /\ cache' = snapshot
        /\ lastFetch' = run[p].now
        /\ run' = [run EXCEPT ![p] = IdleRun]
        /\ settled' = Resolved(p, IF catalogOk THEN "catalog" ELSE "nocatalog")
        /\ response' = IF p \in Requests
                       THEN OkResponse(p, snapshot, run[p].startWarm, run[p].afterBgFail)
                       ELSE NoResponse

\* index.js 168 (81-109, one catalog source), 169-186: the catalog's answer arrives
CatalogResponse(p, outcome) ==
    /\ run[p].pc = "catalog"
    /\ CASE outcome.kind = "hang" ->
                /\ run' = [run EXCEPT ![p] = HungRun]
                /\ response' = NoResponse
                /\ settled' = NoSettle
                /\ UNCHANGED <<cache, lastFetch>>
         [] outcome.kind = "ok" -> Install(p, TRUE, CatalogList(outcome.payload))
         [] OTHER -> Install(p, FALSE, <<>>)
    /\ UNCHANGED <<sources, clock, timerDue, shrineOk, bgFailedWarm>>

\* index.js 204-211
Health ==
    /\ response' = [route |-> "/health", status |-> 200,
                    body |-> [status |-> "ok",
                              cacheAgeMs |-> IF cache # NoCache
                                             THEN [num |-> clock - lastFetch]
                                             ELSE NullNumber,
                              cached |-> cache # NoCache,
                              source |-> IF cache # NoCache THEN "cache" ELSE "none"]]
    /\ settled' = NoSettle
    /\ UNCHANGED <<sources, clock, timerDue, cache, lastFetch, run, shrineOk,
                   bgFailedWarm>>

\* the instants the model's clock visits: up to MaxExtra milliseconds after the
\* start and around one cache lifetime after it
ClockValue(t) ==
    /\ t <= MaxClock
    /\ \/ t - StartClock <= MaxExtra
       \/ t - StartClock >= CACHE_TIME - 1

\* time passes: a millisecond, or all but a millisecond of the cache's lifetime
Tick(d) ==
    /\ ClockValue(clock + d)
    /\ clock' = clock + d
    /\ response' = NoResponse
    /\ settled' = NoSettle
    /\ UNCHANGED <<sources, timerDue, cache, lastFetch, run, shrineOk, bgFailedWarm>>

\* index.js 227-233: the interval is set and the start-up call has reached its
\* first await
InitWith(configs) ==
    /\ sources \in configs
    /\ clock = StartClock
    /\ timerDue = StartClock + CACHE_TIME
    /\ cache = NoCache
    /\ lastFetch = 0
    /\ run = [p \in Procs |->
                IF p = Startup
                THEN [pc |-> "shrine", force |-> TRUE, now |-> StartClock, idx |-> 1,
                      errors |-> <<>>, url |-> "", payload |-> NoPayload,
                      startWarm |-> FALSE, afterBgFail |-> FALSE,
     answer |-> NoAnswer]
                ELSE IdleRun]
    /\ response = NoResponse
    /\ settled = NoSettle
    /\ shrineOk = FALSE
    /\ bgFailedWarm = FALSE

Init == InitWith(SourceConfigs)

Next ==
    \/ \E r \in Requests : GetShrine(r)
    \/ TimerFire
    \/ \E p \in Procs, o \in ServerShrineOutcomes : ShrineResponse(p, o)
    \/ \E p \in Procs, o \in ServerCatalogOutcomes : CatalogResponse(p, o)
    \/ Health
    \/ \E d \in {1, CACHE_TIME - 1} : Tick(d)

Spec == Init /\ [][Next]_vars

\* the start-up call alone, before any request arrives and before the timer is
\* due, against every kind of upstream failure
SoloNext ==
    \/ \E o \in ShrineOutcomes : ShrineResponse(Startup, o)
    \/ \E o \in CatalogOutcomes : CatalogResponse(Startup, o)
    \/ Tick(1)

SoloInit == InitWith(SoloSourceConfigs)

SoloSpec == SoloInit /\ [][SoloNext]_vars

\* the start-up call alone against the default sources, over the shrine perks
\* and the catalogs that exercise the enrichment
EnrichNext ==
    \/ \E o \in EnrichShrineOutcomes : ShrineResponse(Startup, o)
    \/ \E o \in EnrichCatalogOutcomes : CatalogResponse(Startup, o)

EnrichInit == InitWith({<<>>})

EnrichSpec == EnrichInit /\ [][EnrichNext]_vars

\* the start-up call alone, with a catalog that carries one image reference
ImageNext ==
    \/ ShrineResponse(Startup, [kind |-> "ok", payload |-> ImagePayload])
    \/ \E ref \in ImageRefs : CatalogResponse(Startup, ImageCatalogOutcome(ref))

ImageInit == InitWith({<<>>})

ImageSpec == ImageInit /\ [][ImageNext]_vars

\* index.js 189-191: every request is a new call of the handler. A call whose
\* await never settles is never resumed and has no further effect, so its slot
\* stands for the next request.
Abandon(r) ==
    /\ run[r].pc = "hung"
    /\ run' = [run EXCEPT ![r] = IdleRun]
    /\ response' = NoResponse
    /\ settled' = NoSettle
    /\ UNCHANGED <<sources, clock, timerDue, cache, lastFetch, shrineOk, bgFailedWarm>>

\* one shrine body and one catalog; a source that answers or fails; a catalog
\* that answers, fails or never answers
LiveShrineOutcomes ==
    { [kind |-> "ok", payload |-> [week |-> <<"1">>]] }
        \cup {f \in Failures : f.kind = "status"}
LiveCatalogOutcomes ==
    [kind : {"ok"}, payload : CatalogPayloads]
        \cup {f \in Failures : f.kind = "status"} \cup {Hang}

AnswerArrives ==
    \/ \E p \in Procs, o \in LiveShrineOutcomes : ShrineResponse(p, o)
    \/ \E p \in Procs, o \in LiveCatalogOutcomes : CatalogResponse(p, o)

LiveNext ==
    \/ \E r \in Requests : GetShrine(r)
    \/ \E r \in Requests : Abandon(r)
    \/ TimerFire
    \/ \E p \in Procs, o \in LiveShrineOutcomes : ShrineResponse(p, o)
    \/ \E p \in Procs, o \in LiveCatalogOutcomes : CatalogResponse(p, o)
    \/ \E d \in {1, CACHE_TIME - 1} : Tick(d)

LiveInit == InitWith({<< CustomSource(1) >>})

\* the event loop resumes a call when the answer it awaits is there: an awaited
\* request does not stay unanswered while an answer for it can arrive
LiveSpec == LiveInit /\ [][LiveNext]_vars /\ WF_vars(AnswerArrives)

-----------------------------------------------------------------------------
(* Claims *)

FailureReasons == {f.reason : f \in Failures}

\* C1: once fetchFromSources has returned, what it returned is the URL and the
\* body of the one candidate that answered successfully, that candidate is the
\* k-th of the list, and each of the k-1 candidates before it, in list order,
\* has its failure recorded, whatever the kinds of failure were.
C1_FirstSuccessReturned ==
    \A p \in Procs :
        run[p].pc = "catalog" =>
            LET k == Len(run[p].errors) + 1
            IN  /\ k <= Len(Candidates)
                /\ run[p].answer.url = Candidates[k]
                /\ run[p].url = run[p].answer.url
                /\ run[p].payload = run[p].answer.body
                /\ \A j \in 1..(k - 1) :
                      /\ run[p].errors[j][1] = Candidates[j]
                      /\ run[p].errors[j][2] \in FailureReasons

\* the third candidate answers after the first two failed in different ways
C1_Witness ==
    /\ run[Startup].pc = "catalog"
    /\ Len(run[Startup].errors) = 2
    /\ run[Startup].errors[1][2] # run[Startup].errors[2][2]
    /\ run[Startup].url = Candidates[3]

\* a step in which GET /shrine arrives in slot r
Arrives(r) ==
    /\ run[r].pc = "idle"
    /\ \/ run'[r].pc = "shrine"
       \/ /\ settled'.kind = "resolved" /\ settled'.via = "hit" /\ settled'.proc = r
          /\ settled' # settled

\* C2: a GET /shrine that arrives on a warm cache less than CACHE_TIME after the
\* snapshot's fetchedAt is answered with that snapshot and starts no pipeline
\* run, and one that arrives more than CACHE_TIME after it starts a pipeline run.
C2_TtlFromFetchedAt ==
    [][\A r \in Requests :
          (Arrives(r) /\ cache # NoCache) =>
              /\ clock - cache.fetchedAt < CACHE_TIME =>
                    /\ run'[r].pc = "idle"
                    /\ response'.status = 200 /\ response'.body = cache
                    /\ cache' = cache
              /\ clock - cache.fetchedAt > CACHE_TIME => run'[r].pc = "shrine"]_vars

\* a step in which the last candidate of p's run fails
LastCandidateFails(p) ==
    /\ run[p].pc = "shrine"
    /\ run[p].idx = Len(Candidates)
    /\ run'[p].pc = "idle"

\* C3: the step in which every shrine source has failed leaves cache and
\* lastFetch as they are and rejects the caller's loadShrine call; and cache and
\* lastFetch change in no step but one that resolves a pipeline run, so no step
\* of a failing run touches them.
C3_FailureLeavesCache ==
    [][/\ \A p \in Procs :
             LastCandidateFails(p) =>
                 /\ cache' = cache
                 /\ lastFetch' = lastFetch
                 /\ settled'.kind = "rejected" /\ settled'.proc = p
       /\ (cache' # cache \/ lastFetch' # lastFetch) =>
             (settled'.kind = "resolved" /\ settled'.via # "hit")]_vars

\* the timer's forced refresh has just failed and the warm snapshot is still there
C3_Witness ==
    /\ settled.kind = "rejected" /\ settled.proc = Timer
    /\ cache # NoCache
    /\ lastFetch = cache.fetchedAt - 1

\* C4: no two pipeline runs are awaiting an upstream answer at the same time.
C4_AtMostOneRefresh ==
    Cardinality({p \in Procs : run[p].pc \in {"shrine", "catalog"}}) <= 1

SnapshotKeys ==
    {"fetchedAt", "sourceUsed", "sourceTried", "data", "perksWithImages", "images"}

\* the enrichments of body d: without the catalog and with each catalog
EnrichmentsOf(d) ==
    {Enriched(d, FALSE, <<>>)}
        \cup {Enriched(d, TRUE, CatalogList(c)) : c \in CatalogPayloads}

\* c has every field of a snapshot, and its perksWithImages and images are those
\* of one enrichment of its own data
FullyFormed(c) ==
    /\ DOMAIN c = SnapshotKeys
    /\ \E i \in 1..Len(c.sourceTried) : c.sourceTried[i] = c.sourceUsed
    /\ c.data \in Payloads
    /\ \E e \in EnrichmentsOf(c.data) :
          c.perksWithImages = e.perksWithImages /\ c.images = e.images

\* C5: the cache, and the body of every 200 answer of GET /shrine that is not
\* the fallback, is absent or fully formed; and whenever the cache is replaced,
\* the new snapshot's source, data, perksWithImages and images are all those of
\* the one run that completes in that step: the URL and body that run fetched
\* and an enrichment of that body.
C5_SnapshotFromOneRun ==
    /\ [](/\ cache # NoCache => FullyFormed(cache)
          /\ (response.route = "/shrine" /\ "data" \in DOMAIN response.body)
                => FullyFormed(response.body))
    /\ [][cache' # cache =>
            \E p \in Procs :
                /\ run[p].pc = "catalog" /\ run'[p].pc = "idle"
                /\ cache'.sourceUsed = run[p].answer.url
                /\ cache'.data = run[p].answer.body
                /\ \E e \in EnrichmentsOf(run[p].answer.body) :
                      /\ cache'.perksWithImages = e.perksWithImages
                      /\ cache'.images = e.images]_vars

\* a run has just replaced the snapshot while another run, holding a different
\* body, is still in flight
C5_Witness ==
    /\ settled.kind = "resolved" /\ settled.via # "hit"
    /\ cache # NoCache
    /\ \E p \in Procs : run[p].pc = "catalog" /\ run[p].payload # cache.data

\* C6: a GET /shrine that arrives after a timer refresh failed on a warm cache
\* is answered 200 with a snapshot.
C6_ServedAfterFailedRefresh ==
    (response.route = "/shrine" /\ response.afterBgFail) =>
        (response.status = 200 /\ "data" \in DOMAIN response.body)

\* C7: as long as no shrine source has ever answered successfully, every answer
\* of GET /shrine is 200 with the fallback object and an error field, and every
\* answer of GET /health reports no cache.
C7_OutageServesFallback ==
    ~shrineOk =>
        /\ response.route = "/shrine" =>
              /\ response.status = 200
              /\ response.body = [source |-> <<"f","a","l","l","b","a","c","k">>,
                                  lastUpdated |-> Null,
                                  perks |-> <<>>,
                                  error |-> "Upstream fetch failed"]
        /\ response.route = "/health" =>
              /\ response.body.cached = FALSE
              /\ response.body.cacheAgeMs = NullNumber
              /\ response.body.source = "none"

\* the start-up call and the timer refresh have failed, and a request that then
\* failed too has been answered
C7_Witness ==
    /\ ~shrineOk
    /\ response.route = "/shrine"
    /\ clock >= StartClock + CACHE_TIME
    /\ run[Startup].pc = "idle"
    /\ timerDue > StartClock + CACHE_TIME /\ run[Timer].pc = "idle"

\* C8: GET /shrine answers 500 only to a request that found a snapshot when it
\* arrived.
C8_Only500WhenStartedWarm ==
    (response.route = "/shrine" /\ response.status = 500) => response.startWarm

\* the first image-like field of a perk, in the extractor's order
FirstImageOf(perk) ==
    IF Truthy(Get(perk, "icon")) THEN perk.icon
    ELSE IF Truthy(Get(perk, "iconUrl")) THEN perk.iconUrl
    ELSE IF Truthy(Get(perk, "iconPath")) THEN perk.iconPath
    ELSE IF Truthy(Get(perk, "image")) THEN perk.image
    ELSE IF Truthy(Get(perk, "perkImage")) THEN perk.perkImage
    ELSE IF Truthy(Get(perk, "perkIcon")) THEN perk.perkIcon
    ELSE Null

\* q is perk with nothing changed but image, which is perk's first image-like
\* field as it stands
PlainlyEnriched(q, perk) ==
    /\ DOMAIN perk \subseteq DOMAIN q
    /\ DOMAIN q \subseteq DOMAIN perk \cup {"image"}
    /\ \A k \in DOMAIN perk \ {"image"} : q[k] = perk[k]
    /\ IF Truthy(FirstImageOf(perk)) THEN q.image = FirstImageOf(perk) ELSE q = perk

\* C9: a run whose shrine fetch succeeded always resolves, whatever the catalog
\* answers, and installs a snapshot of the body it fetched; when the catalog
\* failed, perksWithImages is the body's perks list, each perk changed in nothing
\* but its image, set to its own first image-like field as it stands.
C9_CatalogFailureDegrades ==
    [][\A p \in Procs :
          (run[p].pc = "catalog" /\ run'[p].pc = "idle") =>
              /\ settled'.kind = "resolved" /\ settled'.proc = p
              /\ cache' # NoCache
              /\ cache'.data = run[p].payload
              /\ settled'.via = "nocatalog" =>
                    LET perks == IF "perks" \in DOMAIN run[p].payload
                                 THEN run[p].payload.perks ELSE <<>>
                    IN  /\ Len(cache'.perksWithImages) = Len(perks)
                        /\ \A i \in 1..Len(perks) :
                              PlainlyEnriched(cache'.perksWithImages[i], perks[i])]_vars

\* the catalog has just failed and the absolute image of perk "x" is served as
\* it came
C9_Witness ==
    /\ settled.kind = "resolved" /\ settled.via = "nocatalog"
    /\ cache # NoCache
    /\ Len(cache.perksWithImages) = 2
    /\ cache.perksWithImages[1].image = AbsImg
    /\ cache.perksWithImages[2].image = RelImg

\* C10: no pipeline run is left waiting for an upstream answer that never comes.
C10_NoRunBlockedForever == \A p \in Procs : run[p].pc # "hung"

\* the text of the first k entries of a list of failures, " | " between them
RECURSIVE Listed(_, _)
Listed(entries, k) ==
    IF k = 0 THEN ""
    ELSE IF k = 1 THEN entries[1][1] \o " -> " \o entries[1][2]
    ELSE Listed(entries, k - 1) \o " | " \o entries[k][1] \o " -> " \o entries[k][2]

\* C11: while fetchFromSources runs, the failures it has recorded are those of
\* the candidates before the current one, one each, in list order; the failure
\* of a candidate is recorded under that candidate's URL with that failure's own
\* reason; and when the last candidate fails, the call is rejected with the
\* message that lists these entries, all of them, once each and in that order.
C11_AggregateErrorListsAll ==
    /\ [](\A p \in Procs :
            run[p].pc = "shrine" =>
                /\ Len(run[p].errors) = run[p].idx - 1
                /\ \A j \in 1..Len(run[p].errors) :
                      run[p].errors[j][1] = Candidates[j])
    /\ [][\A p \in Procs, o \in Failures :
            (run[p].pc = "shrine" /\ ShrineResponse(p, o)) =>
                LET all == Append(run[p].errors,
                                  <<Candidates[run[p].idx], o.reason>>)
                IN  IF run[p].idx < Len(Candidates)
                    THEN run'[p].pc = "shrine" /\ run'[p].errors = all
                    ELSE /\ settled'.kind = "rejected" /\ settled'.proc = p
                         /\ Len(all) = Len(Candidates)
                         /\ settled'.message =
                               "All shrine sources failed: " \o Listed(all, Len(all))]_vars

\* three candidates have failed, each in its own way
C11_Witness ==
    /\ settled.kind = "rejected"
    /\ settled.message =
          "All shrine sources failed: https://mirror-a.example/shrine -> 503 | https://mirror-b.example/shrine -> socket hang up | https://mirror-c.example/shrine -> invalid json response body"

\* the perks list of a shrine body, as loadShrine and enrichPayload read it
PerksOf(payload) == IF "perks" \in DOMAIN payload THEN payload.perks ELSE <<>>

\* C12: the snapshot a run installs has one entry of perksWithImages per perk
\* of the body the run fetched, in the same order: the i-th entry has the id of
\* the i-th perk and every field that perk has, whether the catalog answered or
\* failed.
C12_EnrichmentKeepsPerks ==
    [][\A p \in Procs :
          (run[p].pc = "catalog" /\ run'[p].pc = "idle") =>
              LET perks == PerksOf(run[p].payload)
                  out == cache'.perksWithImages
              IN  /\ Len(out) = Len(perks)
                  /\ \A i \in 1..Len(perks) :
                        /\ Get(out[i], "id") = Get(perks[i], "id")
                        /\ DOMAIN perks[i] \subseteq DOMAIN out[i]]_vars

\* with the catalog's answer, a list of two perks with different ids has been
\* installed: the first was merged with a catalog entry, the second had neither
\* a catalog entry nor an override and is as it came
C12_Witness ==
    /\ settled.kind = "resolved" /\ settled.via = "catalog"
    /\ cache # NoCache
    /\ "perks" \in DOMAIN cache.data
    /\ Len(cache.perksWithImages) = 2
    /\ Get(cache.perksWithImages[1], "id") = <<"X">>
    /\ "role" \in DOMAIN cache.perksWithImages[1]
    /\ cache.perksWithImages[2] = [name |-> NameO]

\* the identifiers the override table lists, and the names it gives them
OverrideKeys == {k28p02, k32p02}
OverrideName(key) == IF key = k28p02 THEN DarknessRevealed ELSE ForcedHesitation

\* the positions of the catalog entries filed under key
MatchesOf(catalog, key) ==
    {j \in 1..Len(catalog) : key # <<>> /\ CatalogKey(catalog[j]) = key}

\* C13: after a run whose catalog answered, a perk whose lower-cased id is in
\* the override table has the override's name, whatever the catalog and the
\* perk itself say; a perk whose id is not in the table and that has a catalog
\* entry has the first that exists of the entry's name, the entry's
\* displayName, its own name, its key.
C13_OverrideNameWins ==
    [][\A p \in Procs, o \in EnrichCatalogOutcomes :
          (run[p].pc = "catalog" /\ o.kind = "ok" /\ CatalogResponse(p, o)) =>
              LET perks == PerksOf(run[p].payload)
                  catalog == CatalogList(o.payload)
                  out == cache'.perksWithImages
              IN  \A i \in 1..Len(perks) :
                     LET key == PerkKey(perks[i])
                         hits == MatchesOf(catalog, key)
                     IN  IF key \in OverrideKeys
                         THEN Get(out[i], "name") = OverrideName(key)
                         ELSE hits # {} =>
                                LET m == catalog[MaxOf(hits)]
                                IN  Get(out[i], "name") =
                                      Or(Or(Or(Get(m, "name"), Get(m, "displayName")),
                                            Get(perks[i], "name")), key)]_vars

\* C14: after a run whose catalog answered with no entries, the perk
\* {id: "k28p02", icon: "/icons/a.png"} has the name "Darkness Revealed" and the
\* image "https://dbd.tricky.lol/icons/a.png".
C14_RelativeIconNormalized ==
    [][\A p \in Procs, o \in EnrichCatalogOutcomes :
          (run[p].pc = "catalog" /\ o.kind = "ok" /\ CatalogResponse(p, o)
             /\ CatalogList(o.payload) = <<>>) =>
              LET perks == PerksOf(run[p].payload)
                  out == cache'.perksWithImages
              IN  \A i \in 1..Len(perks) :
                     perks[i] = [id |-> k28p02, icon |-> RelImg] =>
                         /\ Get(out[i], "name") = DarknessRevealed
                         /\ Get(out[i], "image") = BASE_HOST \o RelImg]_vars

\* C15: after a run whose catalog answered, a perk whose key has a catalog
\* entry with an image-like field has that entry's image, made absolute, as its
\* image, whatever image-like fields the perk came with; when the entry has no
\* image-like field, a perk that came with an image keeps its own.
C15_CatalogImageWins ==
    [][\A p \in Procs, o \in EnrichCatalogOutcomes :
          (run[p].pc = "catalog" /\ o.kind = "ok" /\ CatalogResponse(p, o)) =>
              LET perks == PerksOf(run[p].payload)
                  catalog == CatalogList(o.payload)
                  out == cache'.perksWithImages
              IN  \A i \in 1..Len(perks) :
                     LET hits == MatchesOf(catalog, PerkKey(perks[i]))
                     IN  hits # {} =>
                           LET fromCatalog == FirstImageOf(catalog[MaxOf(hits)])
                               own == FirstImageOf(perks[i])
                           IN  IF Truthy(fromCatalog)
                               THEN Get(out[i], "image") = normalizeImageUrl(fromCatalog)
                               ELSE Truthy(own) => Get(out[i], "image") = own]_vars

\* a path without its leading slash, if it has one
WithoutLeadingSlash(ref) == IF ref[1] = "/" THEN Tail(ref) ELSE ref

C17_SequentialRequests ==
    [][\A p \in Procs :
          /\ (run[p].pc = "idle" /\ run'[p].pc # "idle") =>
                (run'[p].pc = "shrine" /\ run'[p].idx = 1 /\ run'[p].errors = <<>>)
          /\ (run[p].pc = "shrine" /\ run'[p].pc = "shrine" /\ run'[p] # run[p]) =>
                /\ run'[p].idx = run[p].idx + 1
                /\ run'[p].idx <= Len(Candidates)
                /\ Len(run'[p].errors) = run[p].idx
          /\ (run[p].pc = "shrine" /\ run'[p].pc = "catalog") =>
                /\ run'[p].answer.url = Candidates[run[p].idx]
                /\ Len(run[p].errors) = run[p].idx - 1
                /\ run'[p].errors = run[p].errors
          /\ (run[p].pc = "shrine" /\ run'[p].pc = "idle") =>
                /\ run[p].idx = Len(Candidates)
                /\ settled'.kind = "rejected" /\ settled'.proc = p
          /\ run'[p].pc = "catalog" => run[p].pc \in {"shrine", "catalog"}
          /\ run[p].pc = "catalog" => run'[p].pc \in {"catalog", "idle", "hung"}
          /\ (run[p].pc = "catalog" /\ run'[p].pc = "catalog") => run'[p] = run[p]]_vars

\* a run is waiting for the catalog after its first candidate failed and its
\* second answered
C17_Witness ==
    \E p \in Procs :
        /\ run[p].pc = "catalog"
        /\ run[p].idx = 2
        /\ Len(run[p].errors) = 1
        /\ run[p].url = DEFAULT_SOURCES[2]

\* C18: the sourceUsed of a snapshot is one of the URLs of its sourceTried,
\* which is the configured list when there is one and the built-in list
\* otherwise.
C18_SourceUsedAmongTried ==
    cache # NoCache =>
        /\ \E i \in 1..Len(cache.sourceTried) : cache.sourceTried[i] = cache.sourceUsed
        /\ cache.sourceTried = IF sources # <<>> THEN sources ELSE DEFAULT_SOURCES

\* a snapshot from the second built-in source is installed
C18_Witness ==
    /\ cache # NoCache
    /\ sources = <<>>
    /\ cache.sourceUsed = DEFAULT_SOURCES[2]
    /\ cache.sourceTried = DEFAULT_SOURCES

\* C20: in every state the cache is null exactly when lastFetch is 0; a step
\* that changes either of them is the completion of a successful pipeline run,
\* which sets both, the cache to that run's snapshot and lastFetch to that
\* run's timestamp; and a cache that is not null never becomes null.
C20_CacheAndTimestampTogether ==
    /\ []((cache = NoCache) <=> (lastFetch = 0))
    /\ [][(cache' # cache \/ lastFetch' # lastFetch) =>
            \E p \in Procs :
                /\ run[p].pc = "catalog" /\ run'[p].pc = "idle"
                /\ settled'.kind = "resolved" /\ settled'.proc = p
                /\ cache' # NoCache
                /\ cache'.sourceUsed = run[p].url /\ cache'.data = run[p].payload
                /\ cache'.fetchedAt = clock
                /\ lastFetch' = run[p].now]_vars
    /\ [][cache # NoCache => cache' # NoCache]_vars

\* a later run has replaced an earlier snapshot and its timestamp
C20_Witness ==
    /\ settled.kind = "resolved" /\ settled.via # "hit"
    /\ cache # NoCache
    /\ lastFetch >= StartClock + CACHE_TIME

\* a step in which GET /shrine arrives or the interval callback runs
TriggerOccurs == (\E r \in Requests : GetShrine(r)) \/ TimerFire

\* a step in which a shrine source fails
ShrineSourceFails ==
    \E p \in Procs, o \in LiveShrineOutcomes :
        o.kind # "ok" /\ run[p].pc = "shrine" /\ ShrineResponse(p, o)

\* C19: a failure of the start-up call changes nothing and is answered by no
\* response; the cache goes from cold to warm only in the step in which a
\* pipeline run succeeds, and every run that succeeds leaves it warm; and if
\* from some point on no shrine source fails, and requests or timer callbacks
\* keep occurring, the cache is warm at some point.
C19_WarmUpBestEffort ==
    /\ [][(run[Startup].pc = "shrine" /\ run'[Startup].pc = "idle") =>
            (cache' = cache /\ lastFetch' = lastFetch /\ response' = NoResponse)]_vars
    /\ [][(cache = NoCache /\ cache' # NoCache) =>
            \E p \in Procs : run[p].pc = "catalog" /\ run'[p].pc = "idle"]_vars
    /\ [][\A p \in Procs :
            (run[p].pc = "catalog" /\ run'[p].pc = "idle") => cache' # NoCache]_vars
    /\ (([]<><<TriggerOccurs>>_vars) /\ (<>[][~ShrineSourceFails]_vars))
          => <>(cache # NoCache)

\* C21: no step lowers lastFetch.
C21_LastFetchNeverDecreases == [][lastFetch' >= lastFetch]_vars

=============================================================================
